---- MODULE Spec2Model ----
(***************************************************************************)
(* A model of server.py: the in-memory users REST service.                 *)
(*                                                                         *)
(* UserSchema, UserController and HTTPHandler are modelled as the code     *)
(* runs them: every request is served by its own thread, and a thread's    *)
(* handler is cut into steps at its accesses to the state shared between   *)
(* threads (the users dict, the emails set, last_id, the lock).            *)
(***************************************************************************)
EXTENDS Integers, Sequences, FiniteSets, TLC

(***************************************************************************)
(* Bounds of the model.                                                    *)
(***************************************************************************)
\* Number of request threads running concurrently.
NumThreads == 2
\* Total number of requests the server receives in one behaviour.
MaxRequests == 3
\* Total number of requests in one behaviour of the runs with list.
MaxListRequests == 4
\* The longest request path of the routing runs, in segments.
MaxSegments == 3
\* The largest age of the validation runs; the smallest is -1.
MaxAge == 101

Threads == 1..NumThreads

(***************************************************************************)
(* JSON values, tagged with the Python type json.loads gives them.         *)
(***************************************************************************)
Str(s) == [type |-> "str", val |-> s]
Int_(n) == [type |-> "int", val |-> n]
Bool(b) == [type |-> "bool", val |-> b]
\* The JSON number n.5, a Python float.
Float(n) == [type |-> "float", val |-> n]
Null == [type |-> "null", val |-> 0]

\* isinstance(value, int): bool is a subclass of int.
IsInstanceInt(v) == v.type \in {"int", "bool"}
\* isinstance(value, basestring)
IsInstanceBasestring(v) == v.type = "str"
\* The integer a value compares as (True == 1, False == 0).
AsInt(v) == IF v.type = "bool" THEN (IF v.val THEN 1 ELSE 0) ELSE v.val

(***************************************************************************)
(* UserSchema                                                              *)
(***************************************************************************)
SchemaFields == {"age", "name", "email", "sex"}

\* schema[name][0]: the expected type
SchemaType(name, v) ==
    IF name = "age" THEN IsInstanceInt(v) ELSE IsInstanceBasestring(v)

\* schema[name][1]: the predicate on the value
SchemaPredicate(name, v) ==
    CASE name = "age" -> 0 < AsInt(v) /\ AsInt(v) < 100
      [] name = "sex" -> v.val \in {"male", "female"}
      [] OTHER -> v.val # ""

\* check_value: "" when the value passes, else the message of the HTTPError(400)
check_value(name, v) ==
    IF name \notin SchemaFields THEN "unknown value " \o name
    ELSE IF ~SchemaType(name, v) THEN name \o " does has wrong type"
    ELSE IF ~SchemaPredicate(name, v) THEN name \o " does has wrong value"
    ELSE ""

\* validate as it would be if it checked nothing.
validate_Anything(d) == TRUE

\* validate: every item of the dict passes check_value
validate(d) == \A k \in DOMAIN d : check_value(k, d[k]) = ""

(***************************************************************************)
(* Strings the code takes apart are sequences of characters.               *)
(***************************************************************************)
Digits == "0" :> 0 @@ "1" :> 1 @@ "2" :> 2 @@ "3" :> 3 @@ "4" :> 4 @@
          "5" :> 5 @@ "6" :> 6 @@ "7" :> 7 @@ "8" :> 8 @@ "9" :> 9

UsersPrefix == <<"/", "u", "s", "e", "r", "s", "/">>

\* str.startswith
StartsWith(s, p) == Len(s) >= Len(p) /\ SubSeq(s, 1, Len(p)) = p

\* str.split(sep, maxsplit)
RECURSIVE Split(_, _, _)
Split(s, sep, maxsplit) ==
    LET hits == {i \in 1..Len(s) : s[i] = sep} IN
    IF maxsplit = 0 \/ hits = {} THEN <<s>>
    ELSE LET i == CHOOSE j \in hits : \A k \in hits : j <= k
         IN <<SubSeq(s, 1, i - 1)>> \o Split(SubSeq(s, i + 1, Len(s)), sep, maxsplit - 1)

\* The value of a non-empty sequence of digits.
RECURSIVE DigitsValue(_)
DigitsValue(s) ==
    IF s = <<>> THEN 0 ELSE 10 * DigitsValue(SubSeq(s, 1, Len(s) - 1)) + Digits[s[Len(s)]]

\* The whitespace characters (str.isspace): blank, tab, newline, return, form feed
\* and vertical tab.
Whitespace == {" ", "\t", "\n", "\r", "\f", ""}

\* The string without its leading whitespace.
RECURSIVE LStrip(_)
LStrip(s) == IF s # <<>> /\ s[1] \in Whitespace THEN LStrip(Tail(s)) ELSE s

\* Python's str.strip(): the string without its leading and trailing whitespace.
RECURSIVE Strip(_)
Strip(s) ==
    IF s # <<>> /\ s[1] \in Whitespace THEN Strip(Tail(s))
    ELSE IF s # <<>> /\ s[Len(s)] \in Whitespace THEN Strip(SubSeq(s, 1, Len(s) - 1))
    ELSE s

\* int(id_str): whitespace is skipped around the number and between its sign and
\* its digits; [ok |-> FALSE] stands for ValueError
ParseInt(id_str) ==
    LET t == Strip(id_str)
        signed == t # <<>> /\ t[1] \in {"+", "-"}
        body == IF signed THEN LStrip(Tail(t)) ELSE t
    IN IF body # <<>> /\ \A i \in 1..Len(body) : body[i] \in DOMAIN Digits
       THEN [ok |-> TRUE,
             val |-> IF signed /\ t[1] = "-" THEN 0 - DigitsValue(body) ELSE DigitsValue(body)]
       ELSE [ok |-> FALSE, val |-> 0]

(***************************************************************************)
(* HTTPHandler: routing and body decoding                                  *)
(***************************************************************************)
\* get_user_id: parts[2] of the path, or no id at all
get_user_id(path) ==
    LET parts == Split(path, "/", 4) IN
    IF StartsWith(path, UsersPrefix) /\ Len(parts) = 3
    THEN [found |-> TRUE, id |-> parts[3]]
    ELSE [found |-> FALSE, id |-> <<>>]

\* do_GET, do_POST, do_PUT, do_DELETE: the controller method a request reaches
Route(method, path) ==
    CASE method = "GET" ->
           IF path = UsersPrefix THEN [op |-> "list", id_str |-> <<>>]
           ELSE IF get_user_id(path).found
                THEN [op |-> "get", id_str |-> get_user_id(path).id]
                ELSE [op |-> "not_found", id_str |-> <<>>]
      [] method = "POST" ->
           IF path = UsersPrefix THEN [op |-> "create", id_str |-> <<>>]
           ELSE [op |-> "not_found", id_str |-> <<>>]
      [] method = "PUT" ->
           IF get_user_id(path).found
           THEN [op |-> "update", id_str |-> get_user_id(path).id]
           ELSE [op |-> "not_found", id_str |-> <<>>]
      [] method = "DELETE" ->
           IF get_user_id(path).found
           THEN [op |-> "delete", id_str |-> get_user_id(path).id]
           ELSE [op |-> "not_found", id_str |-> <<>>]

\* The headers of a request that carries no Content-Type header.
NoHeader == <<>>
\* The headers of a request with the Content-Type header ctype.
ContentType(ctype) == "Content-Type" :> ctype
\* 'application/json', and Content-Type values that start with it or do not.
JsonType == <<"a", "p", "p", "l", "i", "c", "a", "t", "i", "o", "n", "/", "j", "s", "o", "n">>
JsonTypeCharset == JsonType \o <<";", " ", "c", "h", "a", "r", "s", "e", "t", "=", "u", "t", "f", "-", "8">>
JsonTypeX == JsonType \o <<"x">>
TextPlain == <<"t", "e", "x", "t", "/", "p", "l", "a", "i", "n">>
JsonHeader == ContentType(JsonType)

\* get_data: the HTTPError(415) it raises unless the Content-Type starts with
\* 'application/json', or a KeyError for the missing header ([code |-> 0] is any
\* exception that is no HTTPError); [code |-> 200] is no exception
get_data(r) ==
    IF "Content-Type" \notin DOMAIN r.headers THEN [code |-> 0, error |-> "'content-type'"]
    ELSE IF ~StartsWith(r.headers["Content-Type"], JsonType)
         THEN [code |-> 415, error |-> "expected application/json"]
         ELSE [code |-> 200, error |-> ""]

\* call_with_body: every exception of get_data is raised again as HTTPError(400, str(e))
call_with_body(r) ==
    IF get_data(r).code # 200 THEN [code |-> 400, error |-> get_data(r).error]
    ELSE [code |-> 200, error |-> ""]

\* process_request with a handler that raised: the status and the body {'error': str(e)}
ErrorResponse(code, msg) ==
    [status |-> IF code = 0 THEN 500 ELSE code, error |-> msg, id |-> 0]

\* write_response as it would be without the branch for None: the route's status
\* whatever the handler returned.
OkResponse_RouteStatus(status, id) == [status |-> status, error |-> "", id |-> id]

\* process_request and write_response with a handler that returned: 204 without a
\* body when the handler returned None (id 0), else the route's status and the object
OkResponse(status, id) ==
    [status |-> IF id = 0 THEN 204 ELSE status, error |-> "", id |-> id]

NoResponse == [status |-> 0, error |-> "", id |-> 0]

(***************************************************************************)
(* The requests the model sends.                                           *)
(***************************************************************************)
EmailA == Str("a@x.com")
EmailB == Str("b@x.com")

UserA == [name |-> Str("A"), email |-> EmailA, age |-> Int_(30), sex |-> Str("male")]
UserB == [name |-> Str("B"), email |-> EmailB, age |-> Int_(99), sex |-> Str("female")]

\* Bodies of POST /users/: two valid users and one without email.
CreateBodies ==
    { UserA, UserB,
      [name |-> Str("A"), age |-> Int_(30), sex |-> Str("male")] }

\* Bodies of PUT /users/{id}: partial updates with and without email, an invalid one.
UpdateBodies ==
    { [name |-> Str("C")],
      [email |-> EmailB, age |-> Int_(1)],
      [sex |-> Str("other")] }

PathUsers == UsersPrefix
PathUser1 == UsersPrefix \o <<"1">>
PathUserX == UsersPrefix \o <<"x">>
PathDeep == UsersPrefix \o <<"1", "/", "x">>

Request(method, path, headers, data) ==
    [method |-> method, path |-> path, headers |-> headers, data |-> data]

NoData == <<>>

Requests ==
    {Request("POST", PathUsers, JsonHeader, d) : d \in CreateBodies}
    \cup {Request("POST", PathUsers, ContentType(TextPlain), UserA)}
    \cup {Request("PUT", PathUser1, JsonHeader, d) : d \in UpdateBodies}
    \cup {Request("PUT", PathUser1, NoHeader, [name |-> Str("C")])}
    \cup {Request("PUT", PathUserX, ContentType(JsonTypeCharset), [sex |-> Str("other")])}
    \cup {Request("GET", PathUser1, NoHeader, NoData),
          Request("DELETE", PathUser1, NoHeader, NoData)}
    \cup {Request("GET", PathDeep, NoHeader, NoData)}

\* The requests of the runs on the lock: a create, a partial update and a delete,
\* which between them enter every critical section and raise in it.
LockRequests ==
    {Request("POST", PathUsers, JsonHeader, UserA),
     Request("PUT", PathUser1, JsonHeader, [name |-> Str("C")]),
     Request("DELETE", PathUser1, NoHeader, NoData)}

\* The requests of the runs with list: GET /users/ among creates and a delete.
ListRequests ==
    {Request("GET", PathUsers, NoHeader, NoData),
     Request("POST", PathUsers, JsonHeader, UserA),
     Request("POST", PathUsers, JsonHeader, UserB),
     Request("DELETE", PathUser1, NoHeader, NoData)}

\* The segments the paths of the routing runs are made of.
RouteSegments == {<<>>, <<"u", "s", "e", "r", "s">>, <<"1">>, <<"x">>}

\* The path made of the segments q: a '/' before each.
RECURSIVE JoinPath(_)
JoinPath(q) == IF q = <<>> THEN <<>> ELSE <<"/">> \o Head(q) \o JoinPath(Tail(q))

RoutePaths ==
    UNION {{JoinPath(q) : q \in [1..n -> RouteSegments]} : n \in 1..MaxSegments}

\* The requests of the routing runs: every method on every path, the bodies of
\* POST and PUT being JSON.
RouteRequests ==
    {Request(m, p, NoHeader, NoData) : m \in {"GET", "DELETE"}, p \in RoutePaths}
    \cup {Request("POST", p, JsonHeader, [sex |-> Str("other")]) : p \in RoutePaths}
    \cup {Request("PUT", p, JsonHeader, [name |-> Str("C")]) : p \in RoutePaths}

\* The ages of the validation runs: the integers of a range around the limits, and
\* values json.loads gives another type.
AgeValues ==
    {Int_(n) : n \in (0 - 1)..MaxAge}
    \cup {Str("30"), Float(30), Bool(TRUE), Bool(FALSE), Null}

SexValues == {Str("male"), Str("female"), Str("other"), Str("")}

\* Bodies of POST /users/ in the validation runs: user B with every age and sex, and
\* with a field the schema does not know.
ValidateCreateBodies ==
    {[UserB EXCEPT !.age = a, !.sex = x] : a \in AgeValues, x \in SexValues}
    \cup {[k \in SchemaFields \cup {"id"} |-> IF k = "id" THEN Int_(7) ELSE UserB[k]]}

\* Bodies of PUT /users/1 in the validation runs: one field each, of every age and
\* sex, a name and an email of the wrong type or empty, an unknown field.
ValidateUpdateBodies ==
    {[age |-> a] : a \in AgeValues}
    \cup {[sex |-> x] : x \in SexValues}
    \cup {[name |-> v] : v \in {Str("C"), Str(""), Int_(5), Null}}
    \cup {[email |-> v] : v \in {EmailB, Str(""), Int_(5)}}
    \cup {[nick |-> Str("C")]}

ValidateRequests ==
    {Request("POST", PathUsers, JsonHeader, d) : d \in ValidateCreateBodies}
    \cup {Request("PUT", PathUser1, JsonHeader, d) : d \in ValidateUpdateBodies}

\* The request that follows in the validation runs: a valid create.
FollowRequest == Request("POST", PathUsers, ContentType(JsonTypeX), UserB)

\* The requests of the runs on the controller, and those of the routing and
\* validation runs.
ServedRequests == Requests \cup ListRequests \cup LockRequests \cup {FollowRequest}
WideRequests == RouteRequests \cup ValidateRequests

NoRequest == Request("", <<>>, NoHeader, NoData)

\* Route and int() are functions of the request alone: their values over the requests.
RouteTable == [r \in ServedRequests |-> Route(r.method, r.path)]
RouteTableWide == [r \in WideRequests |-> Route(r.method, r.path)]
RouteOf(r) == IF r \in ServedRequests THEN RouteTable[r] ELSE RouteTableWide[r]
IntOf ==
    [s \in {RouteTable[r].id_str : r \in ServedRequests}
            \cup {RouteTableWide[r].id_str : r \in WideRequests} |-> ParseInt(s)]

\* __user_id_from_str: the id, or the 404 HTTPError when int() raises ValueError
user_id_from_str(id_str) == IntOf[id_str]

(***************************************************************************)
(* UserController                                                          *)
(***************************************************************************)
VARIABLES
    users,      \* self.users: id -> the User object stored under it (an object is named by its id)
    heap,       \* the User objects: object -> its slots
    emails,     \* self.emails
    last_id,    \* self.last_id
    lock,       \* self.lock: the thread holding it, 0 when free
    pc,         \* per thread: the statement it is about to run
    req,        \* per thread: the request it serves, or served last
    id_,        \* per thread: create's and __next_id's local id_
    user,       \* per thread: the local user of create, update and delete
    resp,       \* per thread: the response written for req
    issued,     \* the ids __next_id has returned, in order
    nreq,       \* the number of requests received
    users_ids,  \* per thread: list's local users_ids, the ids it has still to look up
    users_refs  \* per thread: list's local users_refs, the objects appended so far

vars == <<users, heap, emails, last_id, lock, pc, req, id_, user, resp, issued, nreq,
          users_ids, users_refs>>

\* UserController.__init__, and every thread idle
Init ==
    /\ users = <<>>
    /\ heap = <<>>
    /\ emails = {}
    /\ last_id = 1
    /\ lock = 0
    /\ pc = [t \in Threads |-> "idle"]
    /\ req = [t \in Threads |-> NoRequest]
    /\ id_ = [t \in Threads |-> 0]
    /\ user = [t \in Threads |-> 0]
    /\ resp = [t \in Threads |-> NoResponse]
    /\ issued = <<>>
    /\ nreq = 0
    /\ users_ids = [t \in Threads |-> <<>>]
    /\ users_refs = [t \in Threads |-> <<>>]

\* The dict d without key k.
Without(d, k) == [x \in DOMAIN d \ {k} |-> d[x]]

\* dict.get(k): None when the key is absent
DictGet(d, k) == IF k \in DOMAIN d THEN d[k] ELSE Null

\* __update_email as it would be without the uniqueness check: the new email is
\* added whether or not it is in the index.
update_email_NoConflict(e, new_email, old_email) ==
    IF new_email = old_email THEN [emails |-> e, exc |-> ""]
    ELSE LET added == IF new_email # Null THEN e \cup {new_email} ELSE e IN
         IF old_email = Null \/ old_email \in added
         THEN [emails |-> added \ {old_email}, exc |-> ""]
         ELSE [emails |-> added, exc |-> "KeyError"]

\* __update_email as it would be with the old email removed before the new one is
\* checked: a Conflict leaves the index without the old email.
update_email_RemoveFirst(e, new_email, old_email) ==
    IF new_email = old_email THEN [emails |-> e, exc |-> ""]
    ELSE IF old_email # Null /\ old_email \notin e
         THEN [emails |-> e, exc |-> "KeyError"]
         ELSE LET removed == e \ {old_email} IN
              IF new_email # Null /\ new_email \in removed
              THEN [emails |-> removed, exc |-> "Conflict"]
              ELSE [emails |-> IF new_email # Null THEN removed \cup {new_email} ELSE removed,
                    exc |-> ""]

\* __update_email(new_email, old_email) on the index e: the index it leaves and the
\* exception it raised ("" for none)
update_email(e, new_email, old_email) ==
    IF new_email = old_email THEN [emails |-> e, exc |-> ""]
    ELSE IF new_email # Null /\ new_email \in e
         THEN [emails |-> e, exc |-> "Conflict"]
         ELSE LET added == IF new_email # Null THEN e \cup {new_email} ELSE e IN
              IF old_email = Null THEN [emails |-> added, exc |-> ""]
              ELSE IF old_email \in added
                   THEN [emails |-> added \ {old_email}, exc |-> ""]
                   ELSE [emails |-> added, exc |-> "KeyError"]

\* User.__init__(id_, **data)
NewUser(id, data) ==
    [id |-> id, name |-> data.name, email |-> data.email, age |-> data.age, sex |-> data.sex]

\* User.update(d): setattr for every item of d
UserUpdate(u, d) == [k \in DOMAIN u |-> IF k \in DOMAIN d THEN d[k] ELSE u[k]]

\* get as it would be if an unparseable id were a bad request (400) and not a 404.
get_BadRequest(id_str) ==
    LET parsed == user_id_from_str(id_str) IN
    IF ~parsed.ok THEN [code |-> 400, error |-> "users with id is not found", user |-> 0]
    ELSE IF parsed.val \notin DOMAIN users
         THEN [code |-> 404, error |-> "user is not found", user |-> 0]
         ELSE [code |-> 200, error |-> "", user |-> users[parsed.val]]

\* get(id_str): the 404 it raises, or the object found
get(id_str) ==
    LET parsed == user_id_from_str(id_str) IN
    IF ~parsed.ok THEN [code |-> 404, error |-> "users with id is not found", user |-> 0]
    ELSE IF parsed.val \notin DOMAIN users
         THEN [code |-> 404, error |-> "user is not found", user |-> 0]
         ELSE [code |-> 200, error |-> "", user |-> users[parsed.val]]

\* The objects of heap h still referenced: by the dict us, by a local user (ur) of
\* a thread, or by the list (refs) a thread's list has built.
Referenced(h, us, ur, refs) ==
    [o \in {x \in DOMAIN h :
               \/ \E k \in DOMAIN us : us[k] = x
               \/ \E t \in Threads : ur[t] = x
               \/ \E t \in Threads : \E i \in 1..Len(refs[t]) : refs[t][i] = x}
       |-> h[o]]

\* The objects of heap h still referenced once a step has left the dict us and the
\* local users ur (the lists of list are as they were).
Collect(h, us, ur) == Referenced(h, us, ur, users_refs)

\* process_request and write_response: thread t answers its request with response r
\* and its handler's locals are gone.
Respond(t, r) ==
    /\ resp' = [resp EXCEPT ![t] = r]
    /\ user' = [user EXCEPT ![t] = 0]
    /\ pc' = [pc EXCEPT ![t] = "idle"]

\* with self.lock as it would be if the lock excluded nobody: entered at once.
Acquire_NoMutex(t, next) ==
    /\ lock' = t
    /\ pc' = [pc EXCEPT ![t] = next]

\* with self.lock: entered by thread t, which goes on at statement next
Acquire(t, next) ==
    /\ lock = 0
    /\ lock' = t
    /\ pc' = [pc EXCEPT ![t] = next]

\* sorted(S) as it would be in descending order.
sorted_Reversed(S) ==
    LET RECURSIVE Desc(_)
        Desc(R) == IF R = {} THEN <<>>
                   ELSE LET m == CHOOSE x \in R : \A y \in R : y <= x IN
                        <<m>> \o Desc(R \ {m})
    IN Desc(S)

\* sorted(S): the keys of the dict in ascending order
sorted(S) ==
    LET RECURSIVE Asc(_)
        Asc(R) == IF R = {} THEN <<>>
                  ELSE LET m == CHOOSE x \in R : \A y \in R : x <= y IN
                       <<m>> \o Asc(R \ {m})
    IN Asc(S)

\* list's loop body as it would be reading from a copy of the dict taken with the
\* ids: the object is appended whether or not it is still stored.
lookup_Stale(refs, k) == Append(refs, k)

\* list's loop body: refs.append(self.users[k]), the KeyError of a key deleted
\* since the ids were taken passed over
lookup(refs, k) == IF k \in DOMAIN users THEN Append(refs, users[k]) ELSE refs

\* write_response with the list that list returned: never None, so the route's
\* status, and the body the users of the list as the encoder writes them, in order
ListResponse(status, refs) ==
    [status |-> status, error |-> "", id |-> 0,
     list |-> [i \in 1..Len(refs) |-> heap[refs[i]]]]

\* The server hands a request to thread t (handle_one_request).
Receive(t) ==
    /\ pc[t] = "idle"
    /\ nreq < MaxRequests
    /\ nreq' = nreq + 1
    /\ \E r \in Requests : req' = [req EXCEPT ![t] = r]
    /\ resp' = [resp EXCEPT ![t] = NoResponse]
    /\ id_' = [id_ EXCEPT ![t] = 0]
    /\ pc' = [pc EXCEPT ![t] = "handle"]
    /\ UNCHANGED <<users, heap, emails, last_id, lock, user, issued, users_ids, users_refs>>

\* A request no route matches: not_found()
NotFound(t) ==
    /\ pc[t] = "handle"
    /\ RouteOf(req[t]).op = "not_found"
    /\ Respond(t, ErrorResponse(404, "not found"))
    /\ UNCHANGED <<users, heap, emails, last_id, lock, req, id_, issued, nreq, users_ids, users_refs>>

\* GET /users/{id}: get(id_str)
Get(t) ==
    /\ pc[t] = "handle"
    /\ RouteOf(req[t]).op = "get"
    /\ LET g == get(RouteOf(req[t]).id_str) IN
       Respond(t, IF g.code # 200 THEN ErrorResponse(g.code, g.error)
                  ELSE OkResponse(200, g.user))
    /\ UNCHANGED <<users, heap, emails, last_id, lock, req, id_, issued, nreq, users_ids, users_refs>>

\* create as it would be taking its id before it validates: a create that fails
\* validation has advanced last_id.
CreateValidate_IdFirst(t) ==
    /\ pc[t] = "handle"
    /\ RouteOf(req[t]).op = "create"
    /\ IF call_with_body(req[t]).code # 200
       THEN /\ Respond(t, ErrorResponse(call_with_body(req[t]).code, call_with_body(req[t]).error))
            /\ UNCHANGED <<last_id, issued>>
       ELSE IF ~validate(req[t].data)
            THEN /\ Respond(t, ErrorResponse(400, "wrong value"))
                 /\ last_id' = last_id + 1
                 /\ issued' = Append(issued, last_id)
            ELSE /\ pc' = [pc EXCEPT ![t] = "next_id_lock"]
                 /\ UNCHANGED <<resp, user, last_id, issued>>
    /\ UNCHANGED <<users, heap, emails, lock, req, id_, nreq, users_ids, users_refs>>

\* POST /users/: call_with_body, then create up to the call of __next_id
CreateValidate(t) ==
    /\ pc[t] = "handle"
    /\ RouteOf(req[t]).op = "create"
    /\ IF call_with_body(req[t]).code # 200
       THEN Respond(t, ErrorResponse(call_with_body(req[t]).code, call_with_body(req[t]).error))
       ELSE IF ~validate(req[t].data)
            THEN Respond(t, ErrorResponse(400, "wrong value"))
            ELSE /\ pc' = [pc EXCEPT ![t] = "next_id_lock"]
                 /\ UNCHANGED <<resp, user>>
    /\ UNCHANGED <<users, heap, emails, last_id, lock, req, id_, issued, nreq, users_ids, users_refs>>

\* __next_id: with self.lock
NextIdLock(t) ==
    /\ pc[t] = "next_id_lock"
    /\ Acquire(t, "next_id_read")
    /\ UNCHANGED <<users, heap, emails, last_id, req, id_, user, resp, issued, nreq, users_ids, users_refs>>

\* __next_id: id_ = self.last_id
NextIdRead(t) ==
    /\ pc[t] = "next_id_read"
    /\ id_' = [id_ EXCEPT ![t] = last_id]
    /\ pc' = [pc EXCEPT ![t] = "next_id_incr"]
    /\ UNCHANGED <<users, heap, emails, last_id, lock, req, user, resp, issued, nreq, users_ids, users_refs>>

\* __next_id: self.last_id += 1; return id_, the lock released
NextIdIncr(t) ==
    /\ pc[t] = "next_id_incr"
    /\ last_id' = last_id + 1
    /\ lock' = 0
    /\ issued' = Append(issued, id_[t])
    /\ pc' = [pc EXCEPT ![t] = "create_user"]
    /\ UNCHANGED <<users, heap, emails, req, id_, user, resp, nreq, users_ids, users_refs>>

\* create: data['id_'] = id_; user = User(**data), a TypeError (answered 500) unless
\* data holds exactly the four fields
CreateUser(t) ==
    /\ pc[t] = "create_user"
    /\ IF DOMAIN req[t].data = SchemaFields
       THEN /\ heap' = (id_[t] :> NewUser(id_[t], req[t].data)) @@ heap
            /\ user' = [user EXCEPT ![t] = id_[t]]
            /\ pc' = [pc EXCEPT ![t] = "create_lock"]
            /\ UNCHANGED resp
       ELSE /\ Respond(t, ErrorResponse(0, "__init__() takes exactly 6 arguments"))
            /\ UNCHANGED heap
    /\ UNCHANGED <<users, emails, last_id, lock, req, id_, issued, nreq, users_ids, users_refs>>

\* create: with self.lock
CreateLock(t) ==
    /\ pc[t] = "create_lock"
    /\ Acquire(t, "create_email")
    /\ UNCHANGED <<users, heap, emails, last_id, req, id_, user, resp, issued, nreq, users_ids, users_refs>>

\* create's critical section as it would be with acquire() and release() in place
\* of with: the Conflict leaves it without releasing the lock.
CreateEmail_KeepLock(t) ==
    /\ pc[t] = "create_email"
    /\ LET u == update_email(emails, heap[user[t]].email, Null) IN
       /\ emails' = u.emails
       /\ IF u.exc = "Conflict"
          THEN /\ pc' = [pc EXCEPT ![t] = "conflict"]
               /\ UNCHANGED lock
          ELSE /\ pc' = [pc EXCEPT ![t] = "create_store"]
               /\ lock' = 0
    /\ UNCHANGED <<users, heap, last_id, req, id_, user, resp, issued, nreq, users_ids, users_refs>>

\* create: self.__update_email(user.email, None); the with block is left, by the
\* Conflict or at its end, and the lock released
CreateEmail(t) ==
    /\ pc[t] = "create_email"
    /\ LET u == update_email(emails, heap[user[t]].email, Null) IN
       /\ emails' = u.emails
       /\ pc' = [pc EXCEPT ![t] = IF u.exc = "Conflict" THEN "conflict" ELSE "create_store"]
    /\ lock' = 0
    /\ UNCHANGED <<users, heap, last_id, req, id_, user, resp, issued, nreq, users_ids, users_refs>>

\* create: self.users[id_] = user; return UserRef(user)
CreateStore(t) ==
    /\ pc[t] = "create_store"
    /\ users' = (id_[t] :> user[t]) @@ users
    /\ Respond(t, OkResponse(201, heap[user[t]].id))
    /\ heap' = Collect(heap, users', user')
    /\ UNCHANGED <<emails, last_id, lock, req, id_, issued, nreq, users_ids, users_refs>>

\* PUT /users/{id}: call_with_body, then update up to with self.lock
UpdateValidate(t) ==
    /\ pc[t] = "handle"
    /\ RouteOf(req[t]).op = "update"
    /\ LET g == get(RouteOf(req[t]).id_str) IN
       IF call_with_body(req[t]).code # 200
       THEN Respond(t, ErrorResponse(call_with_body(req[t]).code, call_with_body(req[t]).error))
       ELSE IF g.code # 200
            THEN Respond(t, ErrorResponse(g.code, g.error))
            ELSE IF ~validate(req[t].data)
                 THEN Respond(t, ErrorResponse(400, "wrong value"))
                 ELSE /\ user' = [user EXCEPT ![t] = g.user]
                      /\ pc' = [pc EXCEPT ![t] = "update_lock"]
                      /\ UNCHANGED resp
    /\ UNCHANGED <<users, heap, emails, last_id, lock, req, id_, issued, nreq, users_ids, users_refs>>

\* update: with self.lock
UpdateLock(t) ==
    /\ pc[t] = "update_lock"
    /\ Acquire(t, "update_email")
    /\ UNCHANGED <<users, heap, emails, last_id, req, id_, user, resp, issued, nreq, users_ids, users_refs>>

\* update: self.__update_email(data.get('email'), user.email); user.update(data);
\* the with block is left, by an exception or at its end, and the lock released
UpdateEmail(t) ==
    /\ pc[t] = "update_email"
    /\ LET u == update_email(emails, DictGet(req[t].data, "email"), heap[user[t]].email) IN
       /\ emails' = u.emails
       /\ IF u.exc = "Conflict"
          THEN /\ pc' = [pc EXCEPT ![t] = "conflict"]
               /\ UNCHANGED heap
          ELSE IF u.exc = "KeyError"
               THEN /\ pc' = [pc EXCEPT ![t] = "key_error"]
                    /\ UNCHANGED heap
               ELSE /\ pc' = [pc EXCEPT ![t] = "update_return"]
                    /\ heap' = [heap EXCEPT ![user[t]] = UserUpdate(@, req[t].data)]
    /\ lock' = 0
    /\ UNCHANGED <<users, last_id, req, id_, user, resp, issued, nreq, users_ids, users_refs>>

\* update: return user, answered with 200
UpdateReturn(t) ==
    /\ pc[t] = "update_return"
    /\ Respond(t, OkResponse(200, user[t]))
    /\ heap' = Collect(heap, users, user')
    /\ UNCHANGED <<users, emails, last_id, lock, req, id_, issued, nreq, users_ids, users_refs>>

\* process_request: the HTTPError(409) raised inside a with block has left the
\* handler and is answered with its code
AnswerConflict(t) ==
    /\ pc[t] = "conflict"
    /\ Respond(t, ErrorResponse(409, "Email is not unique"))
    /\ heap' = Collect(heap, users, user')
    /\ UNCHANGED <<users, emails, last_id, lock, req, id_, issued, nreq, users_ids, users_refs>>

\* process_request: the KeyError raised inside a with block has left the handler
\* and is answered with 500
AnswerKeyError(t) ==
    /\ pc[t] = "key_error"
    /\ Respond(t, ErrorResponse(0, "KeyError"))
    /\ heap' = Collect(heap, users, user')
    /\ UNCHANGED <<users, emails, last_id, lock, req, id_, issued, nreq, users_ids, users_refs>>

\* DELETE /users/{id}: delete up to with self.lock
DeleteGet(t) ==
    /\ pc[t] = "handle"
    /\ RouteOf(req[t]).op = "delete"
    /\ LET g == get(RouteOf(req[t]).id_str) IN
       IF g.code # 200
       THEN Respond(t, ErrorResponse(g.code, g.error))
       ELSE /\ user' = [user EXCEPT ![t] = g.user]
            /\ pc' = [pc EXCEPT ![t] = "delete_lock"]
            /\ UNCHANGED resp
    /\ UNCHANGED <<users, heap, emails, last_id, lock, req, id_, issued, nreq, users_ids, users_refs>>

\* delete: with self.lock
DeleteLock(t) ==
    /\ pc[t] = "delete_lock"
    /\ Acquire(t, "delete_email")
    /\ UNCHANGED <<users, heap, emails, last_id, req, id_, user, resp, issued, nreq, users_ids, users_refs>>

\* delete: self.__update_email(None, user.email); the with block is left, by the
\* KeyError or at its end, and the lock released
DeleteEmail(t) ==
    /\ pc[t] = "delete_email"
    /\ LET u == update_email(emails, Null, heap[user[t]].email) IN
       /\ emails' = u.emails
       /\ pc' = [pc EXCEPT ![t] = IF u.exc = "KeyError" THEN "key_error" ELSE "delete_del"]
    /\ lock' = 0
    /\ UNCHANGED <<users, heap, last_id, req, id_, user, resp, issued, nreq, users_ids, users_refs>>

\* delete: del self.users[user.id]; the handler returns None
DeleteDel(t) ==
    /\ pc[t] = "delete_del"
    /\ IF heap[user[t]].id \in DOMAIN users
       THEN /\ users' = Without(users, heap[user[t]].id)
            /\ Respond(t, OkResponse(200, 0))
       ELSE /\ Respond(t, ErrorResponse(0, "KeyError"))
            /\ UNCHANGED users
    /\ heap' = Collect(heap, users', user')
    /\ UNCHANGED <<emails, last_id, lock, req, id_, issued, nreq, users_ids, users_refs>>

\* The server hands thread t a request of the runs with list.
ListReceive(t) ==
    /\ pc[t] = "idle"
    /\ nreq < MaxListRequests
    /\ nreq' = nreq + 1
    /\ \E r \in ListRequests : req' = [req EXCEPT ![t] = r]
    /\ resp' = [resp EXCEPT ![t] = NoResponse]
    /\ id_' = [id_ EXCEPT ![t] = 0]
    /\ pc' = [pc EXCEPT ![t] = "handle"]
    /\ UNCHANGED <<users, heap, emails, last_id, lock, user, issued, users_ids, users_refs>>

\* GET /users/: list's users_ids = sorted(self.users); users_refs = []
ListSort(t) ==
    /\ pc[t] = "handle"
    /\ RouteOf(req[t]).op = "list"
    /\ users_ids' = [users_ids EXCEPT ![t] = sorted(DOMAIN users)]
    /\ users_refs' = [users_refs EXCEPT ![t] = <<>>]
    /\ pc' = [pc EXCEPT ![t] = "list_next"]
    /\ UNCHANGED <<users, heap, emails, last_id, lock, req, id_, user, resp, issued, nreq>>

\* list: one turn of the loop over users_ids, users_refs.append(self.users[id_]) with
\* the KeyError passed over; after the last turn return users_refs, answered with 200,
\* and the list is gone with the objects nothing else refers to
ListNext(t) ==
    /\ pc[t] = "list_next"
    /\ IF users_ids[t] = <<>>
       THEN /\ Respond(t, ListResponse(200, users_refs[t]))
            /\ users_refs' = [users_refs EXCEPT ![t] = <<>>]
            /\ heap' = Referenced(heap, users, user', users_refs')
            /\ UNCHANGED users_ids
       ELSE /\ users_ids' = [users_ids EXCEPT ![t] = Tail(@)]
            /\ users_refs' = [users_refs EXCEPT ![t] = lookup(@, Head(users_ids[t]))]
            /\ UNCHANGED <<pc, resp, user, heap>>
    /\ UNCHANGED <<users, emails, last_id, lock, req, id_, issued, nreq>>

\* One step of thread t in serving its request.
Serve(t) ==
    \/ NotFound(t)
    \/ Get(t)
    \/ CreateValidate(t)
    \/ NextIdLock(t)
    \/ NextIdRead(t)
    \/ NextIdIncr(t)
    \/ CreateUser(t)
    \/ CreateLock(t)
    \/ CreateEmail(t)
    \/ CreateStore(t)
    \/ UpdateValidate(t)
    \/ UpdateLock(t)
    \/ UpdateEmail(t)
    \/ UpdateReturn(t)
    \/ DeleteGet(t)
    \/ DeleteLock(t)
    \/ DeleteEmail(t)
    \/ DeleteDel(t)
    \/ AnswerConflict(t)
    \/ AnswerKeyError(t)

\* No thread but t is serving a request.
Alone(t) == \A o \in Threads \ {t} : pc[o] = "idle"

\* Threads serve requests concurrently (a threaded server on the same handler).
Next == \E t \in Threads : Receive(t) \/ Serve(t)

\* Requests are served one at a time (HTTPServer.serve_forever, as main starts it).
SerialNext == \E t \in Threads : (Alone(t) /\ Receive(t)) \/ Serve(t)

Spec == Init /\ [][Next]_vars

SpecSerial == Init /\ [][SerialNext]_vars

\* The id the operation in progress on thread t targets, 0 when it has none (yet):
\* the id in the path of a get, update or delete, the id taken by a create.
Target(t) ==
    IF pc[t] = "idle" THEN 0
    ELSE IF RouteOf(req[t]).op \in {"get", "update", "delete"}
         THEN (IF IntOf[RouteOf(req[t]).id_str].ok THEN IntOf[RouteOf(req[t]).id_str].val ELSE 0)
         ELSE id_[t]

\* No two operations in progress target the same id.
Disjoint ==
    \A t \in Threads : \A o \in Threads \ {t} : Target(t) = 0 \/ Target(t) # Target(o)

\* The interleavings in which no two concurrent operations target the same id: a
\* request is received, and a create takes its id, only if the targets stay apart.
DisjointNext ==
    \E t \in Threads :
        \/ Receive(t) /\ Disjoint'
        \/ NextIdRead(t) /\ Disjoint'
        \/ NotFound(t)
        \/ Get(t)
        \/ CreateValidate(t)
        \/ NextIdLock(t)
        \/ NextIdIncr(t)
        \/ CreateUser(t)
        \/ CreateLock(t)
        \/ CreateEmail(t)
        \/ CreateStore(t)
        \/ UpdateValidate(t)
        \/ UpdateLock(t)
        \/ UpdateEmail(t)
        \/ UpdateReturn(t)
        \/ DeleteGet(t)
        \/ DeleteLock(t)
        \/ DeleteEmail(t)
        \/ DeleteDel(t)
        \/ AnswerConflict(t)
        \/ AnswerKeyError(t)

SpecDisjoint == Init /\ [][DisjointNext]_vars

\* The server hands thread t a request of the runs on the lock.
LockReceive(t) ==
    /\ pc[t] = "idle"
    /\ nreq < MaxRequests
    /\ nreq' = nreq + 1
    /\ \E r \in LockRequests : req' = [req EXCEPT ![t] = r]
    /\ resp' = [resp EXCEPT ![t] = NoResponse]
    /\ id_' = [id_ EXCEPT ![t] = 0]
    /\ pc' = [pc EXCEPT ![t] = "handle"]
    /\ UNCHANGED <<users, heap, emails, last_id, lock, user, issued, users_ids, users_refs>>

\* One step of thread t in serving a create, an update or a delete.
LockServe(t) ==
    \/ CreateValidate(t)
    \/ NextIdLock(t)
    \/ NextIdRead(t)
    \/ NextIdIncr(t)
    \/ CreateUser(t)
    \/ CreateLock(t)
    \/ CreateEmail(t)
    \/ CreateStore(t)
    \/ UpdateValidate(t)
    \/ UpdateLock(t)
    \/ UpdateEmail(t)
    \/ UpdateReturn(t)
    \/ DeleteGet(t)
    \/ DeleteLock(t)
    \/ DeleteEmail(t)
    \/ DeleteDel(t)
    \/ AnswerConflict(t)
    \/ AnswerKeyError(t)

LockNext == \E t \in Threads : LockReceive(t) \/ LockServe(t)

\* Concurrent creates, updates and deletes under fair scheduling: a thread that can
\* run (it is serving a request, and the lock is free if it waits for it) does run.
SpecFair ==
    Init /\ [][LockNext]_vars /\ \A t \in Threads : WF_vars(LockServe(t))

\* One step of thread t in serving a request of the runs with list.
ListServe(t) ==
    \/ ListSort(t)
    \/ ListNext(t)
    \/ CreateValidate(t)
    \/ NextIdLock(t)
    \/ NextIdRead(t)
    \/ NextIdIncr(t)
    \/ CreateUser(t)
    \/ CreateLock(t)
    \/ CreateEmail(t)
    \/ CreateStore(t)
    \/ DeleteGet(t)
    \/ DeleteLock(t)
    \/ DeleteEmail(t)
    \/ DeleteDel(t)
    \/ AnswerConflict(t)

\* The server hands thread t a request of the concurrent runs with list, which take
\* MaxRequests requests as the other concurrent runs do.
ListReceiveConcurrent(t) == nreq < MaxRequests /\ ListReceive(t)

\* list among concurrent creates and deletes; of two deletes of one user the second
\* to reach the index raises KeyError.
ListNextStep ==
    \E t \in Threads : ListReceiveConcurrent(t) \/ ListServe(t) \/ AnswerKeyError(t)

\* list among creates and deletes, one request at a time.
ListSerialNext == \E t \in Threads : (Alone(t) /\ ListReceive(t)) \/ ListServe(t)

SpecList == Init /\ [][ListNextStep]_vars

SpecListSerial == Init /\ [][ListSerialNext]_vars

\* The server has handed its first request, one of the routing runs, to thread 1.
InitRoute ==
    /\ users = <<>>
    /\ heap = <<>>
    /\ emails = {}
    /\ last_id = 1
    /\ lock = 0
    /\ \E r \in RouteRequests : req = [t \in Threads |-> IF t = 1 THEN r ELSE NoRequest]
    /\ pc = [t \in Threads |-> IF t = 1 THEN "handle" ELSE "idle"]
    /\ id_ = [t \in Threads |-> 0]
    /\ user = [t \in Threads |-> 0]
    /\ resp = [t \in Threads |-> NoResponse]
    /\ issued = <<>>
    /\ nreq = 1
    /\ users_ids = [t \in Threads |-> <<>>]
    /\ users_refs = [t \in Threads |-> <<>>]

\* The request is routed and served.
RouteNext ==
    \E t \in Threads :
        \/ NotFound(t)
        \/ Get(t)
        \/ ListSort(t)
        \/ ListNext(t)
        \/ CreateValidate(t)
        \/ UpdateValidate(t)
        \/ DeleteGet(t)

SpecRoute == InitRoute /\ [][RouteNext]_vars

\* Thread 1 has served the create of user A, answered 201, and the server has
\* handed it the next request, one of the validation runs.
InitValidate ==
    /\ users = (1 :> 1)
    /\ heap = (1 :> NewUser(1, UserA))
    /\ emails = {EmailA}
    /\ last_id = 2
    /\ lock = 0
    /\ \E r \in ValidateRequests : req = [t \in Threads |-> IF t = 1 THEN r ELSE NoRequest]
    /\ pc = [t \in Threads |-> IF t = 1 THEN "handle" ELSE "idle"]
    /\ id_ = [t \in Threads |-> 0]
    /\ user = [t \in Threads |-> 0]
    /\ resp = [t \in Threads |-> NoResponse]
    /\ issued = <<1>>
    /\ nreq = 2
    /\ users_ids = [t \in Threads |-> <<>>]
    /\ users_refs = [t \in Threads |-> <<>>]

\* The server hands thread t the valid create that follows.
FollowReceive(t) ==
    /\ pc[t] = "idle"
    /\ nreq < MaxRequests
    /\ nreq' = nreq + 1
    /\ req' = [req EXCEPT ![t] = FollowRequest]
    /\ resp' = [resp EXCEPT ![t] = NoResponse]
    /\ id_' = [id_ EXCEPT ![t] = 0]
    /\ pc' = [pc EXCEPT ![t] = "handle"]
    /\ UNCHANGED <<users, heap, emails, last_id, lock, user, issued, users_ids, users_refs>>

\* The creates and updates of the validation runs, one request at a time.
ValidateNext ==
    \E t \in Threads :
        \/ Alone(t) /\ FollowReceive(t)
        \/ CreateValidate(t)
        \/ NextIdLock(t)
        \/ NextIdRead(t)
        \/ NextIdIncr(t)
        \/ CreateUser(t)
        \/ CreateLock(t)
        \/ CreateEmail(t)
        \/ CreateStore(t)
        \/ UpdateValidate(t)
        \/ UpdateLock(t)
        \/ UpdateEmail(t)
        \/ UpdateReturn(t)
        \/ AnswerConflict(t)

SpecValidate == InitValidate /\ [][ValidateNext]_vars

(***************************************************************************)
(* Properties                                                              *)
(***************************************************************************)
\* The email of the user stored under id k.
StoredEmail(k) == heap[users[k]].email

\* Thread t has answered a request (and received none since).
Answered(t) == pc[t] = "idle" /\ req[t] # NoRequest /\ resp[t] # NoResponse

\* The ids __next_id has returned.
IssuedIds == {issued[i] : i \in 1..Len(issued)}

\* C1: email uniqueness. Whatever create, update and delete calls have run, each to
\* completion, no two distinct stored users have the same email.
C1_EmailUniqueness ==
    \A k1 \in DOMAIN users : \A k2 \in DOMAIN users :
        k1 # k2 => StoredEmail(k1) # StoredEmail(k2)

\* C2: index invariant. Between calls (no request in progress) the set emails is
\* exactly the set of the emails of the stored users.
C2_IndexExact ==
    (\A t \in Threads : pc[t] = "idle") =>
        emails = {StoredEmail(k) : k \in DOMAIN users}

\* C3: id monotonicity under any interleaving. The first id assigned is 1, every id
\* assigned is greater than all assigned before it (so none is assigned twice, nor
\* again after its user was deleted), the counter stays above all of them, and every
\* stored user and every 201 response carries an assigned id of its own.
C3_IdMonotonic ==
    /\ Len(issued) > 0 => issued[1] = 1
    /\ \A i \in 1..Len(issued) : \A j \in 1..Len(issued) : i < j => issued[i] < issued[j]
    /\ \A i \in 1..Len(issued) : issued[i] < last_id
    /\ \A k \in DOMAIN users : k \in IssuedIds /\ heap[users[k]].id = k
    /\ \A t \in Threads : Answered(t) /\ resp[t].status = 201 => resp[t].id \in IssuedIds
    /\ \A t1 \in Threads : \A t2 \in Threads :
         (t1 # t2 /\ Answered(t1) /\ Answered(t2)
            /\ resp[t1].status = 201 /\ resp[t2].status = 201)
         => resp[t1].id # resp[t2].id

\* C3 witness: a delete has succeeded and a user created with a greater id is stored,
\* while the deleted id is stored no more.
C3_Witness ==
    \E t \in Threads :
        /\ Answered(t)
        /\ RouteOf(req[t]).op = "delete"
        /\ resp[t].status = 204
        /\ IntOf[RouteOf(req[t]).id_str].val \in IssuedIds \ DOMAIN users
        /\ \E k \in DOMAIN users : k > IntOf[RouteOf(req[t]).id_str].val

\* The request has a Content-Type header and it declares JSON.
DeclaresJson(r) ==
    "Content-Type" \in DOMAIN r.headers /\ StartsWith(r.headers["Content-Type"], JsonType)

\* C4: a POST /users/ or PUT /users/{id} whose Content-Type is absent or does not
\* declare JSON is answered 415.
C4_UnsupportedMediaType ==
    \A t \in Threads :
        (/\ Answered(t)
         /\ RouteOf(req[t]).op \in {"create", "update"}
         /\ ~DeclaresJson(req[t]))
        => resp[t].status = 415

\* Thread t takes a step from statement p.
Leaves(t, p) == pc[t] = p /\ pc'[t] # p

\* The controller method thread t's request reached, "" when it has none.
Op(t) == IF req[t] # NoRequest THEN RouteOf(req[t]).op ELSE ""

\* The id (as int() reads it) in the path of thread t's request.
PathId(t) == ParseInt(RouteOf(req[t]).id_str)

\* C5: a create whose email is already in the index is answered 409, stores no user
\* and leaves the index unchanged, yet has consumed its id: the id is below the
\* counter, is never a key of users and is the id of no 201 response.
C5_ConflictConsumesId ==
    /\ [][\A t \in Threads :
            /\ (Leaves(t, "create_email") /\ heap[user[t]].email \in emails) =>
                  /\ pc'[t] = "conflict"
                  /\ users' = users
                  /\ emails' = emails
            /\ (Leaves(t, "conflict") /\ Op(t) = "create") =>
                  /\ pc'[t] = "idle"
                  /\ resp'[t].status = 409
                  /\ users' = users
                  /\ emails' = emails]_vars
    /\ [](\A t \in Threads :
            (Answered(t) /\ Op(t) = "create" /\ resp[t].status = 409) =>
                /\ id_[t] \in IssuedIds
                /\ id_[t] < last_id
                /\ id_[t] \notin DOMAIN users
                /\ \A o \in Threads :
                     (Answered(o) /\ resp[o].status = 201) => resp[o].id # id_[t])

\* C5 witness: a create was answered 409 and a later create was answered 201 with an
\* id beyond the one the failed create consumed.
C5_Witness ==
    \E t \in Threads : \E o \in Threads :
        /\ Answered(t) /\ Op(t) = "create" /\ resp[t].status = 409
        /\ Answered(o) /\ Op(o) = "create" /\ resp[o].status = 201
        /\ resp[o].id > id_[t]
        /\ resp[o].id \in DOMAIN users

\* C6: frame of update. A successful update overwrites exactly the supplied fields of
\* its user; when it supplies no email, or the user's current one, the user's email
\* and the index stay as they were; no other user and not the counter changes.
C6_UpdateFrame ==
    [][\A t \in Threads :
         /\ (Leaves(t, "update_email") /\ pc'[t] = "update_return") =>
               LET d == req[t].data
                   o == user[t] IN
               /\ o \in DOMAIN heap' /\ heap'[o] = UserUpdate(heap[o], d)
               /\ ("email" \notin DOMAIN d \/ d.email = heap[o].email) =>
                     emails' = emails /\ heap'[o].email = heap[o].email
               /\ \A x \in DOMAIN heap \ {o} : x \in DOMAIN heap' /\ heap'[x] = heap[x]
               /\ users' = users
               /\ last_id' = last_id
         /\ Leaves(t, "update_return") =>
               /\ resp'[t].status = 200
               /\ \A k \in DOMAIN users : heap'[users[k]] = heap[users[k]]
               /\ UNCHANGED <<users, emails, last_id>>]_vars

\* C7: delete atomicity. While a delete is between removing its user's email from the
\* index and removing the user from users, no other stored user has that email.
C7_DeleteAtomic ==
    \A t \in Threads :
        (pc[t] = "delete_del" /\ \E k \in DOMAIN users : users[k] = user[t]) =>
            \A k \in DOMAIN users :
                users[k] # user[t] => StoredEmail(k) # heap[user[t]].email

\* C8: delete on the id of a stored user succeeds: it removes the user's email from
\* the index, then the user from users, and is answered 204.
C8_DeleteSucceeds ==
    [][\A t \in Threads :
         /\ Leaves(t, "delete_email") =>
               /\ pc'[t] = "delete_del"
               /\ emails' = emails \ {heap[user[t]].email}
         /\ Leaves(t, "delete_del") =>
               /\ resp'[t].status = 204
               /\ users' = Without(users, heap[user[t]].id)]_vars

\* C9: an update to an email other than the user's own that is already indexed is
\* answered 409 and changes neither the index nor any user; when the new email is
\* free the index becomes the old index minus the old email plus the new one.
C9_UpdateEmail ==
    [][\A t \in Threads :
         /\ (Leaves(t, "conflict") /\ Op(t) = "update") =>
               /\ resp'[t].status = 409
               /\ emails' = emails
               /\ users' = users
               /\ \A x \in DOMAIN heap : x \in DOMAIN heap' => heap'[x] = heap[x]
         /\ Leaves(t, "update_email") =>
            LET new == DictGet(req[t].data, "email")
                old == heap[user[t]].email IN
            (new # Null /\ new # old) =>
                IF new \in emails
                THEN /\ pc'[t] = "conflict"
                     /\ emails' = emails
                     /\ users' = users
                     /\ \A x \in DOMAIN heap : x \in DOMAIN heap' => heap'[x] = heap[x]
                ELSE emails' = (emails \ {old}) \cup {new}]_vars

\* C9 witness: an update that supplied an email (and another field) was answered 409.
C9_Witness ==
    \E t \in Threads :
        /\ Answered(t) /\ Op(t) = "update" /\ resp[t].status = 409
        /\ DOMAIN req[t].data # {"email"}
        /\ \E k \in DOMAIN users : StoredEmail(k) = req[t].data.email

\* C10: get, update and delete on an id that is not parseable or is no key of users
\* (never issued, or deleted) are answered 404 and change nothing, whatever fields an
\* update supplies.
C10_NotFound ==
    [][\A t \in Threads :
         (/\ Leaves(t, "handle")
          /\ Op(t) \in {"get", "update", "delete"}
          /\ Op(t) = "update" => DeclaresJson(req[t])
          /\ ~PathId(t).ok \/ PathId(t).val \notin DOMAIN users) =>
            /\ pc'[t] = "idle"
            /\ resp'[t].status = 404
            /\ UNCHANGED <<users, heap, emails, last_id, lock>>]_vars

\* C10 witness: an update with an invalid field on the id of a deleted user was
\* answered 404.
C10_Witness ==
    \E t \in Threads :
        /\ Answered(t) /\ Op(t) = "update" /\ resp[t].status = 404
        /\ ~validate(req[t].data)
        /\ PathId(t).ok /\ PathId(t).val \in IssuedIds \ DOMAIN users
        /\ \E o \in Threads :
              /\ Answered(o) /\ Op(o) = "delete" /\ resp[o].status = 204
              /\ PathId(o) = PathId(t)

\* The ids of the objects in list's result so far, in order.
ResultIds(t) == [i \in 1..Len(users_refs[t]) |-> heap[users_refs[t][i]].id]

\* The ids of the users in the body of the response r to a list, in order.
ResponseIds(r) == [i \in 1..Len(r.list) |-> r.list[i].id]

\* A sequence of ids is strictly ascending (so it has no duplicates).
Ascending(q) == \A i \in 1..Len(q) : \A j \in 1..Len(q) : i < j => q[i] < q[j]

\* Thread t takes a step of list: the sort, a turn of the loop, or the return.
ListStep(t) ==
    /\ Op(t) = "list"
    /\ pc[t] \in {"handle", "list_next"}
    /\ (pc'[t] # pc[t] \/ users_ids'[t] # users_ids[t])

\* C11: list, called when no other operation is in progress, returns exactly the
\* users currently stored, each once, in strictly ascending id order, answered with
\* 200, and none of its steps changes the users, the index or the id counter.
C11_ListSnapshot ==
    [][\A t \in Threads :
         (Alone(t) /\ ListStep(t)) =>
             /\ UNCHANGED <<users, heap, emails, last_id, lock, issued>>
             /\ pc'[t] = "idle" =>
                   /\ resp'[t].status = 200
                   /\ ResponseIds(resp'[t]) = ResultIds(t)
                   /\ Ascending(ResultIds(t))
                   /\ {users_refs[t][i] : i \in 1..Len(users_refs[t])}
                        = {users[k] : k \in DOMAIN users}
                   /\ Len(users_refs[t]) = Cardinality(DOMAIN users)]_vars

\* Users 1 and 2 were created, user 1 deleted, and a list then returned [user 2].
C11_Witness ==
    \E t \in Threads :
        /\ Answered(t) /\ Op(t) = "list" /\ resp[t].status = 200
        /\ ResponseIds(resp[t]) = <<2>>
        /\ DOMAIN users = {2} /\ IssuedIds = {1, 2}

\* What the handler of thread t raises at its next step, or has raised and
\* process_request is about to catch: "" when nothing, else the exception (HTTPError
\* is call_with_body's 400, NotFound get's 404).
Raises(t) ==
    CASE pc[t] = "handle" ->
           IF Op(t) \in {"create", "update"} /\ call_with_body(req[t]).code # 200
           THEN "HTTPError"
           ELSE IF Op(t) \in {"get", "update", "delete"}
                   /\ get(RouteOf(req[t]).id_str).code # 200
                THEN "NotFound"
                ELSE IF Op(t) \in {"create", "update"} /\ ~validate(req[t].data)
                     THEN "ValidationError"
                     ELSE ""
      [] pc[t] = "create_user" ->
           IF DOMAIN req[t].data = SchemaFields THEN "" ELSE "TypeError"
      [] pc[t] = "create_email" -> update_email(emails, heap[user[t]].email, Null).exc
      [] pc[t] = "update_email" ->
           update_email(emails, DictGet(req[t].data, "email"), heap[user[t]].email).exc
      [] pc[t] = "delete_email" -> update_email(emails, Null, heap[user[t]].email).exc
      [] pc[t] = "delete_del" ->
           IF heap[user[t]].id \in DOMAIN users THEN "" ELSE "KeyError"
      [] pc[t] = "conflict" -> "Conflict"
      [] pc[t] = "key_error" -> "KeyError"
      [] OTHER -> ""

\* The exception on its way from the handler to process_request at statement p.
Pending(p) ==
    CASE p = "conflict" -> "Conflict"
      [] p = "key_error" -> "KeyError"
      [] OTHER -> ""

\* The status code of a domain error (HTTPError and its subclasses).
DomainStatus(exc) ==
    CASE exc = "Conflict" -> 409
      [] exc = "NotFound" -> 404
      [] exc \in {"ValidationError", "HTTPError"} -> 400
      [] OTHER -> 0

\* The status the route of a method passes to process_request.
RouteStatus(method) == IF method = "POST" THEN 201 ELSE 200

\* C12: status mapping at the dispatcher. A handler raising a domain error is
\* answered with that error's status and the body {"error": message}; any other
\* exception with 500; a handler returning no value with 204; every other success
\* with the route's status (200 for GET and PUT, 201 for POST). Exactly one response
\* is written per dispatched request: none before the handler ends, one when it
\* ends, none after.
C12_StatusMapping ==
    [][\A t \in Threads :
         /\ (pc[t] = "idle" /\ pc'[t] = "idle") => resp'[t] = resp[t]
         /\ (pc[t] # "idle" /\ pc'[t] # "idle") => resp'[t] = NoResponse
         /\ (pc[t] # "idle" /\ pc'[t] # pc[t]) =>
               LET exc == Raises(t) IN
               IF pc'[t] # "idle" THEN exc = Pending(pc'[t])
               ELSE Op(t) # "not_found" =>
                      /\ resp'[t] # NoResponse
                      /\ DomainStatus(exc) # 0 =>
                            (resp'[t].status = DomainStatus(exc) /\ resp'[t].error # "")
                      /\ exc = "Conflict" => resp'[t].error = "Email is not unique"
                      /\ exc \in {"KeyError", "TypeError"} => resp'[t].status = 500
                      /\ (exc = "" /\ Op(t) = "delete") => resp'[t].status = 204
                      /\ (exc = "" /\ Op(t) # "delete") =>
                            (resp'[t].status = RouteStatus(req[t].method)
                             /\ resp'[t].error = "")]_vars

\* One thread's delete was answered 204 and another's create, whose handler raised
\* a TypeError, 500.
C12_Witness ==
    \E t \in Threads : \E o \in Threads :
        /\ Answered(t) /\ Op(t) = "delete" /\ resp[t].status = 204
        /\ Answered(o) /\ Op(o) = "create" /\ resp[o].status = 500

\* The path is /users/{id} with {id} exactly one non-empty segment.
IsUserPath(path) ==
    /\ StartsWith(path, UsersPrefix)
    /\ Len(path) > Len(UsersPrefix)
    /\ \A i \in (Len(UsersPrefix) + 1)..Len(path) : path[i] # "/"

\* The routing table as the specification gives it.
MatchesRoute(method, path) ==
    \/ method \in {"GET", "POST"} /\ path = UsersPrefix
    \/ method \in {"GET", "PUT", "DELETE"} /\ IsUserPath(path)

\* C13: routing. A request matches a route only if it is GET or POST on /users/, or
\* GET, PUT or DELETE on /users/{id} with {id} exactly one non-empty segment; every
\* other method and path (PUT or DELETE on /users/ with an empty id, deeper paths
\* such as /users/1/x) reaches no controller operation and is answered 404 with the
\* body {"error": "not found"}.
C13_Routing ==
    \A t \in Threads :
        (req[t] \in RouteRequests /\ ~MatchesRoute(req[t].method, req[t].path)) =>
            /\ RouteOf(req[t]).op = "not_found"
            /\ Answered(t) => (resp[t].status = 404 /\ resp[t].error = "not found")

\* The fields are the four of a user, the age an integer with 0 < age < 100 and the
\* sex "male" or "female".
AgeAndSexValid(d) ==
    /\ DOMAIN d = SchemaFields
    /\ d.age.type = "int" /\ 0 < d.age.val /\ d.age.val < 100
    /\ d.sex \in {Str("male"), Str("female")}

\* C14: validation boundaries. For every integer age of a bounded range and every
\* sex, create with otherwise valid fields passes validation exactly when
\* 0 < age < 100 and sex is "male" or "female"; a non-integer age or an unknown
\* field name fails with 400.
C14_ValidationBoundaries ==
    \A t \in Threads :
        (req[t].method = "POST" /\ req[t].data \in ValidateCreateBodies /\ pc[t] # "handle") =>
            ((pc[t] = "idle" /\ resp[t].status = 400) <=> ~AgeAndSexValid(req[t].data))

\* The schema fields of the object o, as a dict.
FieldsOf(o) == [f \in SchemaFields |-> heap[o][f]]

\* C15: visibility. In every reachable state, under any interleaving, every user in
\* users is stored under the key equal to its id, has all five fields and satisfies
\* the schema; and a user being created is not in users, where list and get would
\* find it, before its email has been registered in the index.
C15_Visibility ==
    /\ \A k \in DOMAIN users :
          /\ heap[users[k]].id = k
          /\ DOMAIN heap[users[k]] = SchemaFields \cup {"id"}
          /\ \A f \in SchemaFields : check_value(f, heap[users[k]][f]) = ""
    /\ \A t \in Threads :
          pc[t] \in {"next_id_lock", "next_id_read", "next_id_incr", "create_user",
                    "create_lock", "create_email"}
              => (id_[t] \notin DOMAIN users /\ \A k \in DOMAIN users : users[k] # user[t])

\* User 1 is being created, its email not yet registered, and a GET /users/1 of
\* another thread was answered 404 meanwhile.
C15_Witness ==
    \E t \in Threads : \E o \in Threads :
        /\ pc[t] = "create_email" /\ id_[t] = 1 /\ heap[user[t]].email \notin emails
        /\ Answered(o) /\ Op(o) = "get" /\ PathId(o).ok /\ PathId(o).val = 1
        /\ resp[o].status = 404

\* C16: a create whose fields omit any of name, email, age or sex, and are otherwise
\* valid, fails with ValidationError (400), stores no user and leaves the email
\* index unchanged.
C16_MissingField ==
    [][\A t \in Threads :
         (/\ pc[t] # "idle" /\ pc'[t] = "idle"
          /\ Op(t) = "create"
          /\ call_with_body(req[t]).code = 200
          /\ validate(req[t].data)
          /\ DOMAIN req[t].data # SchemaFields
          /\ DOMAIN req[t].data \subseteq SchemaFields) =>
             /\ resp'[t].status = 400
             /\ users' = users
             /\ emails' = emails]_vars

\* The objects in list's result so far.
ResultSet(t) == {users_refs[t][i] : i \in 1..Len(users_refs[t])}

\* list never fails and its result is in strictly ascending id order, without
\* duplicates: at every step of a list, and when it returns, answered with 200.
ListOrdered(t) ==
    ListStep(t) =>
        /\ pc'[t] = "idle" =>
              /\ resp'[t].status = 200
              /\ ResponseIds(resp'[t]) = ResultIds(t)
              /\ Ascending(ResponseIds(resp'[t]))
        /\ pc'[t] # "idle" =>
              /\ resp'[t] = NoResponse
              /\ Ascending(ResultIds(t)')

\* C17 as stated: when list runs interleaved with concurrent creates and deletes it
\* never fails, its result is in strictly ascending id order without duplicates, and
\* a user whose delete completes while list is iterating does not appear in the
\* result (it is not among the objects list has appended, which it returns).
C17_ListDeleteCompletes ==
    [][\A t \in Threads :
         /\ ListOrdered(t)
         /\ \A k \in DOMAIN users :
               (pc[t] = "list_next" /\ k \notin DOMAIN users') => users[k] \notin ResultSet(t)]_vars

\* C17, amended: when list runs interleaved with concurrent creates and deletes it
\* never fails, its result is in strictly ascending id order without duplicates, and
\* a user whose delete completed before list looks its id up does not appear in the
\* result: every object list appends is stored under that id at that moment.
C17_ListConcurrent ==
    [][\A t \in Threads :
         /\ (pc[t] = "list_next" /\ users_ids[t] # <<>> /\ users_ids'[t] # users_ids[t]) =>
               IF Head(users_ids[t]) \in DOMAIN users
               THEN users_refs'[t] = Append(users_refs[t], users[Head(users_ids[t])])
               ELSE users_refs'[t] = users_refs[t]
         /\ ListOrdered(t)]_vars

\* A list has taken the ids [1] and not yet looked id 1 up, and the delete of
\* user 1 has completed meanwhile, answered 204.
C17_Witness ==
    \E t \in Threads : \E o \in Threads :
        /\ pc[t] = "list_next" /\ users_ids[t] = <<1>> /\ users_refs[t] = <<>>
        /\ Answered(o) /\ Op(o) = "delete" /\ resp[o].status = 204
        /\ 1 \notin DOMAIN users

\* C18: concurrent operations on different ids. For any interleaving of creates,
\* deletes and updates in which no two concurrent operations target the same id,
\* once all of them have completed the email index equals the set of the emails of
\* the stored users and no two stored users share an email.
C18_DisjointConsistent ==
    (\A t \in Threads : pc[t] = "idle") =>
        /\ emails = {heap[users[k]].email : k \in DOMAIN users}
        /\ Cardinality({heap[users[k]].email : k \in DOMAIN users}) = Cardinality(DOMAIN users)

\* The dict fails schema validation: it has an unknown field, a value of the wrong
\* type or an invalid value.
FailsSchema(d) == \E k \in DOMAIN d : check_value(k, d[k]) # ""

\* C19: a create or update that fails schema validation (unknown field, wrong type,
\* invalid value) is answered 400 and leaves the whole store unchanged: no user is
\* added or modified, the email index is unchanged and the id counter does not
\* advance, so the next successful create gets the id it would have got.
C19_ValidationFrame ==
    [][\A t \in Threads :
         (/\ pc[t] = "handle" /\ pc'[t] # "handle"
          /\ Op(t) \in {"create", "update"}
          /\ FailsSchema(req[t].data)) =>
             /\ pc'[t] = "idle"
             /\ resp'[t].status = 400
             /\ UNCHANGED <<users, heap, emails, last_id, issued, lock>>]_vars

\* An update of user 1 with an unknown field was answered 400, and the create
\* that followed on another thread was answered 201 with id 2, the next id at the
\* time of the failed call; user 1 is as it was.
C19_Witness ==
    \E t \in Threads : \E o \in Threads :
        /\ Answered(t) /\ Op(t) = "update" /\ req[t].data = [nick |-> Str("C")]
        /\ resp[t].status = 400
        /\ Answered(o) /\ Op(o) = "create" /\ resp[o] = OkResponse(201, 2)
        /\ issued = <<1, 2>>
        /\ heap[users[1]] = NewUser(1, UserA)

\* The statements inside with self.lock, and the with statements themselves.
InCritical == {"next_id_read", "next_id_incr", "create_email", "update_email", "delete_email"}
AtLock == {"next_id_lock", "create_lock", "update_lock", "delete_lock"}

\* The lock is held by exactly the thread inside a critical section, if any: at
\* most one thread is inside, and a thread that has left create, update or delete,
\* by whatever path, does not hold it.
LockHeldInside ==
    /\ lock \in Threads \cup {0}
    /\ \A t \in Threads : (lock = t) <=> (pc[t] \in InCritical)

\* The id counter and the email index change only in a step of the lock's holder.
MutationUnderLock ==
    (last_id' # last_id \/ emails' # emails) =>
        (lock \in Threads /\ pc[lock] \in InCritical /\ pc'[lock] # pc[lock])

\* C20: lock discipline. Every read-modify-write of the id counter and every
\* mutation of the email index happens while the single lock is held, at most one
\* thread holds it at a time, and the lock is released on every exit path of create,
\* update and delete (a Conflict or any other exception raised inside the critical
\* section included); so under fair scheduling every operation that requests the
\* lock eventually acquires it and every operation terminates.
C20_LockDiscipline ==
    /\ []LockHeldInside
    /\ [][MutationUnderLock]_vars
    /\ \A t \in Threads : (pc[t] \in AtLock) ~> (lock = t)
    /\ \A t \in Threads : (pc[t] # "idle") ~> (pc[t] = "idle")

\* A thread waits at create's with self.lock while another holds the lock inside
\* create's critical section and is about to raise Conflict there.
C20_Witness ==
    \E t \in Threads : \E o \in Threads :
        /\ pc[t] \in AtLock /\ lock = o
        /\ pc[o] = "create_email" /\ heap[user[o]].email \in emails
====
